---- MODULE Spec2Model ----
(***************************************************************************)
(* Model of email-bot (src/src/main.rs): the crawl loop, the dedup set,    *)
(* the Redis-backed daily quota gate check_update_email_count, and the     *)
(* dispatch loop of main.                                                  *)
(*                                                                         *)
(* Strings are sequences of tokens ("mailto:", "@", "?", letters), so that *)
(* starts_with, the regex capture and contains('@') are computed.          *)
(* Sleeps (lines 97, 185, 245) take time only and are not modelled.        *)
(***************************************************************************)
EXTENDS Integers, Sequences, FiniteSets, TLC

\* ---------------------------------------------------------------- bounds
MaxPerDay == 2      \* the max_emails_per_day argument of the gate
MaxCalls == 3       \* gate calls made in SpecGate, all callers together
MaxDay == 2         \* calendar days the clock runs through
MaxLinks == 3       \* links on all listing pages of one crawl

\* ------------------------------------------------------ program constants
max_retries == 5

\* the run of main and a second, independent run
Procs == {1, 2}
Days == 1 .. MaxDay
MainProc == 1

\* --------------------------------------------------------------- variables
VARIABLES
    day,              \* Utc::now() as a calendar day
    store,            \* Redis: day key -> [exists, val, ttl]
    gpc,              \* per caller: position inside check_update_email_count
    key,              \* per caller: the day in `key`
    retry_count,      \* per caller
    count,            \* per caller: the value GET returned
    calls,            \* gate calls begun so far
    oplog,            \* history, per caller: outcome of each store round-trip of the call
    attempts,         \* history, per caller: GET round-trips of the call
    pre,              \* history, per caller: store[key] when the call began
    last,             \* the call that has just returned and its result, NoCall one step later
    trues,            \* history: day key -> calls that returned true
    runs,             \* the callers that exist
    init_store,       \* history: the store at start
    pc,               \* main: position
    exit,             \* main: how the run ended
    page_number,      \* main
    business_links,   \* main: links of the current listing page
    li,               \* main: index of the next link
    processed_emails, \* main: HashSet<String>
    businesses,       \* main: Vec<Business>
    file,             \* business_emails.json: <<>> or <<content>>
    idx,              \* main: index of the next business of the dispatch loop
    fetched,          \* history of the crawl: link count of every listing page fetched
    first_seen,       \* history of the crawl: [url, email] of every first sighting
    dups,             \* history of the crawl: [url, email] reported as duplicate (line 181)
    reserved,         \* history: emails for which the gate was called
    sent              \* history: [email, ok] of every mailer.send

gate_vars == <<gpc, key, retry_count, count, calls, oplog, attempts, pre,
               trues>>
main_vars == <<pc, exit, page_number, business_links, li, processed_emails,
               businesses, file, idx, fetched, first_seen, dups, reserved,
               sent>>
vars == <<day, store, runs, init_store, last, gate_vars, main_vars>>

\* ------------------------------------------------------------------ store
Absent == [exists |-> FALSE, val |-> 0, ttl |-> FALSE]

\* What earlier runs or an external writer may have left under today's key.
InitCounters ==
    {Absent} \cup {[exists |-> TRUE, val |-> v, ttl |-> (v > 0)] : v \in 0 .. MaxPerDay}

Upd(f, p, v) == [f EXCEPT ![p] = v]

\* INCR: a missing key counts as 0 and is created without expiry.
RedisIncr(s, k) ==
    IF s[k].exists THEN [s EXCEPT ![k].val = @ + 1]
    ELSE [s EXCEPT ![k] = [exists |-> TRUE, val |-> 1, ttl |-> FALSE]]

\* SET: overwrites the value and discards any expiry.
RedisSet(s, k, v) == [s EXCEPT ![k] = [exists |-> TRUE, val |-> v, ttl |-> FALSE]]

\* EXPIRE: arms the expiry of an existing key, no-op on a missing one.
RedisExpire(s, k) == IF s[k].exists THEN [s EXCEPT ![k].ttl = TRUE] ELSE s

\* --------------------------------------------- check_update_email_count
NoCall == [caller |-> 0, key |-> 0, ret |-> "none", oplog |-> <<>>, attempts |-> 0,
           pre |-> Absent]

\* lines 68-71: today, key, retry_count = 0
BeginCall_KeyWithoutDay(p) ==
    /\ gpc' = Upd(gpc, p, "get")
    /\ key' = Upd(key, p, 1)
    /\ retry_count' = Upd(retry_count, p, 0)
    /\ count' = Upd(count, p, 0)
    /\ calls' = calls + 1
    /\ oplog' = Upd(oplog, p, <<>>)
    /\ attempts' = Upd(attempts, p, 0)
    /\ pre' = Upd(pre, p, store[1])
    /\ last' = NoCall
BeginCall(p) ==
    /\ gpc' = Upd(gpc, p, "get")
    /\ key' = Upd(key, p, day)
    /\ retry_count' = Upd(retry_count, p, 0)
    /\ count' = Upd(count, p, 0)
    /\ calls' = calls + 1
    /\ oplog' = Upd(oplog, p, <<>>)
    /\ attempts' = Upd(attempts, p, 0)
    /\ pre' = Upd(pre, p, store[day])
    /\ last' = NoCall

\* The call ends with r: its locals are dropped, r and its history go to `last`.
Return(p, r, log, gets) ==
    /\ gpc' = Upd(gpc, p, "idle")
    /\ trues' = IF r = "true" THEN Upd(trues, key[p], trues[key[p]] + 1) ELSE trues
    /\ last' = [caller |-> p, key |-> key[p], ret |-> r, oplog |-> log,
                attempts |-> gets, pre |-> pre[p]]
    /\ key' = Upd(key, p, 0)
    /\ retry_count' = Upd(retry_count, p, 0)
    /\ count' = Upd(count, p, 0)
    /\ oplog' = Upd(oplog, p, <<>>)
    /\ attempts' = Upd(attempts, p, 0)
    /\ pre' = Upd(pre, p, Absent)

\* The call goes on to position g after a store round-trip.
Goto(p, g, log, gets) ==
    /\ gpc' = Upd(gpc, p, g)
    /\ oplog' = Upd(oplog, p, log)
    /\ attempts' = Upd(attempts, p, gets)
    /\ last' = NoCall
    /\ UNCHANGED <<key, trues, pre>>

Failures(log) == Cardinality({i \in 1 .. Len(log) : ~log[i]})

\* A store round-trip succeeds or fails.
Outcomes == BOOLEAN

\* the comparison of line 76
BelowLimit_Inclusive(c) == c <= MaxPerDay
BelowLimit(c) == c < MaxPerDay

\* line 92
RetriesExhausted_OneEarly(rc) == rc >= max_retries - 1
RetriesExhausted(rc) == rc >= max_retries

\* line 78
FirstOfDay_Never(c) == FALSE
FirstOfDay(c) == c = 0

\* line 74 and its three arms (75-85, 86, 91-99)
GateGet(p) ==
    /\ gpc[p] = "get"
    /\ UNCHANGED <<day, store, runs, init_store, calls, main_vars>>
    /\ \E ok \in Outcomes :
        LET log == Append(oplog[p], ok)
            gets == attempts[p] + 1
        IN IF ok
           THEN IF store[key[p]].exists
                THEN IF BelowLimit(store[key[p]].val)
                     THEN /\ Goto(p, "incr", log, gets)
                          /\ count' = Upd(count, p, store[key[p]].val)
                          /\ UNCHANGED retry_count
                     ELSE Return(p, "false", log, gets)
                ELSE /\ Goto(p, "set", log, gets)
                     /\ UNCHANGED <<count, retry_count>>
           ELSE IF RetriesExhausted(retry_count[p])
                THEN Return(p, "err", log, gets)
                ELSE /\ Goto(p, "get", log, gets)
                     /\ retry_count' = Upd(retry_count, p, retry_count[p] + 1)
                     /\ UNCHANGED count

\* line 77, then the test of line 78
GateIncr(p) ==
    /\ gpc[p] = "incr"
    /\ UNCHANGED <<day, runs, init_store, calls, main_vars>>
    /\ \E ok \in Outcomes :
        LET log == Append(oplog[p], ok)
        IN IF ok
           THEN /\ store' = RedisIncr(store, key[p])
                /\ IF FirstOfDay(count[p])
                   THEN /\ Goto(p, "expire", log, attempts[p])
                        /\ UNCHANGED <<count, retry_count>>
                   ELSE Return(p, "true", log, attempts[p])
           ELSE /\ Return(p, "err", log, attempts[p])
                /\ UNCHANGED store

\* line 87
GateSet(p) ==
    /\ gpc[p] = "set"
    /\ UNCHANGED <<day, runs, init_store, calls, main_vars>>
    /\ \E ok \in Outcomes :
        LET log == Append(oplog[p], ok)
        IN IF ok
           THEN /\ store' = RedisSet(store, key[p], 1)
                /\ Goto(p, "expire", log, attempts[p])
                /\ UNCHANGED <<count, retry_count>>
           ELSE /\ Return(p, "err", log, attempts[p])
                /\ UNCHANGED store

\* lines 79 and 88, then return Ok(true)
GateExpire(p) ==
    /\ gpc[p] = "expire"
    /\ UNCHANGED <<day, runs, init_store, calls, main_vars>>
    /\ \E ok \in Outcomes :
        LET log == Append(oplog[p], ok)
        IN IF ok
           THEN /\ store' = RedisExpire(store, key[p])
                /\ Return(p, "true", log, attempts[p])
           ELSE /\ Return(p, "err", log, attempts[p])
                /\ UNCHANGED store

\* ------------------------------------------------------------ environment
\* Midnight UTC.
Tick ==
    /\ day < MaxDay
    /\ day' = day + 1
    /\ last' = NoCall
    /\ UNCHANGED <<store, runs, init_store, gate_vars, main_vars>>

\* A key whose 86400 s expiry was armed on its own day lapses on a later day.
KeyExpires ==
    /\ \E k \in Days :
        /\ store[k].exists
        /\ store[k].ttl
        /\ k < day
        /\ store' = [store EXCEPT ![k] = Absent]
    /\ last' = NoCall
    /\ UNCHANGED <<day, runs, init_store, gate_vars, main_vars>>

\* ------------------------------------------------- callers of the gate
\* An independent run asking for one more reservation.
CallGate(p) ==
    /\ p \in runs
    /\ gpc[p] = "idle"
    /\ calls < MaxCalls
    /\ BeginCall(p)
    /\ UNCHANGED <<day, store, runs, init_store, trues, main_vars>>

GateInit ==
    /\ day = 1
    /\ \E c \in InitCounters : store = [k \in Days |-> IF k = 1 THEN c ELSE Absent]
    /\ init_store = store
    /\ gpc = [p \in Procs |-> "idle"]
    /\ key = [p \in Procs |-> 0]
    /\ retry_count = [p \in Procs |-> 0]
    /\ count = [p \in Procs |-> 0]
    /\ calls = 0
    /\ oplog = [p \in Procs |-> <<>>]
    /\ attempts = [p \in Procs |-> 0]
    /\ pre = [p \in Procs |-> Absent]
    /\ trues = [k \in Days |-> 0]
    /\ last = NoCall

MainOff ==
    /\ pc = "off"
    /\ exit = "none"
    /\ page_number = 1
    /\ business_links = <<>>
    /\ li = 1
    /\ processed_emails = {}
    /\ businesses = <<>>
    /\ file = <<>>
    /\ idx = 1
    /\ fetched = <<>>
    /\ first_seen = {}
    /\ dups = {}
    /\ reserved = <<>>
    /\ sent = <<>>

InitGate ==
    /\ GateInit
    /\ MainOff
    /\ runs = {MainProc}

InitRace ==
    /\ GateInit
    /\ MainOff
    /\ runs = Procs

NextGate ==
    \/ \E p \in Procs : CallGate(p)
    \/ \E p \in Procs : GateGet(p)
    \/ \E p \in Procs : GateIncr(p)
    \/ \E p \in Procs : GateSet(p)
    \/ \E p \in Procs : GateExpire(p)
    \/ Tick
    \/ KeyExpires

\* One caller calling the gate again and again, across midnight.
SpecGate == InitGate /\ [][NextGate]_vars

\* Two independent runs calling the gate, their store round-trips interleaved.
SpecRace == InitRace /\ [][NextGate]_vars

\* ------------------------------------------------------------- strings
\* str::starts_with("mailto:"), line 156
StartsWithMailto(h) == Len(h) >= 1 /\ h[1] = "mailto:"

\* the positions at which the regex mailto:([^?]+) of line 157 can match
MatchStarts(h) == {i \in 1 .. Len(h) : h[i] = "mailto:" /\ i < Len(h) /\ h[i + 1] # "?"}

Least(S) == CHOOSE i \in S : \A j \in S : i <= j

\* the longest prefix of s without "?": what the greedy [^?]+ consumes
RECURSIVE UpToQuery(_)
UpToQuery(s) ==
    IF s = <<>> \/ Head(s) = "?" THEN <<>> ELSE <<Head(s)>> \o UpToQuery(Tail(s))

\* lines 157-162: group 1 of the leftmost match, "" without a match
MailtoAddress(h) ==
    IF MatchStarts(h) = {} THEN <<>>
    ELSE UpToQuery(SubSeq(h, Least(MatchStarts(h)) + 1, Len(h)))

\* lines 155-168: the email of an a.email-business element
ExtractEmail(el) ==
    IF el.has_href
    THEN IF StartsWithMailto(el.href) THEN MailtoAddress(el.href) ELSE el.href
    ELSE el.inner

\* str::contains('@'), line 225
ContainsAt(e) == \E i \in 1 .. Len(e) : e[i] = "@"

Letters == {"a", "b", "x", "s"}

\* business.email.parse() of line 233: one '@' between a user and a domain
ParsesAsMailbox(e) ==
    \E i \in 2 .. Len(e) - 1 :
        /\ e[i] = "@"
        /\ \A j \in (1 .. Len(e)) \ {i} : e[j] \in Letters

\* line 142
DetailUrl(href) == <<"https://www.yellowpages.com">> \o href

\* ------------------------------------------------------- the web site
\* an a.business-name element of a listing page, with or without href
LinkElements ==
    {[has_href |-> TRUE, href |-> <<"/u1">>],
     [has_href |-> TRUE, href |-> <<"/u2">>],
     [has_href |-> FALSE, href |-> <<>>]}

RECURSIVE SeqsUpTo(_, _)
SeqsUpTo(S, n) ==
    IF n = 0 THEN {<<>>}
    ELSE LET shorter == SeqsUpTo(S, n - 1)
         IN shorter \cup {Append(q, x) : q \in shorter, x \in S}

\* what the select of line 134 may find on a listing page
ListingPages == SeqsUpTo(LinkElements, MaxLinks)

NoElement == [elem |-> FALSE, has_href |-> FALSE, href |-> <<>>, inner |-> <<>>]
HrefElement(h) == [elem |-> TRUE, has_href |-> TRUE, href |-> h, inner |-> <<>>]
TextElement(t) == [elem |-> TRUE, has_href |-> FALSE, href |-> <<>>, inner |-> t]

\* what the select of line 154 may find on a detail page
DetailPages ==
    {NoElement,
     HrefElement(<<"mailto:", "a", "@", "x">>),
     HrefElement(<<"mailto:", "a", "@", "x", "?", "s">>),
     HrefElement(<<"mailto:">>),
     HrefElement(<<"mailto:", "@">>),
     HrefElement(<<"b", "@", "x">>),
     TextElement(<<"b", "@", "x">>)}

\* ------------------------------------------------------------------ main
Exit_NotFatal(how) ==
    /\ pc' = "persist"
    /\ exit' = how
Exit(how) ==
    /\ pc' = "exit"
    /\ exit' = how

\* lines 113-114
Connect ==
    /\ pc = "connect"
    /\ \E ok \in BOOLEAN :
        IF ok THEN pc' = "list" /\ UNCHANGED exit ELSE Exit("err_redis")
    /\ UNCHANGED <<day, store, runs, init_store, last, gate_vars, page_number, business_links,
                   li, processed_emails, businesses, file, idx, fetched, first_seen,
                   dups, reserved, sent>>

\* line 136
IsEmpty_Never(links) == FALSE
IsEmpty(links) == links = <<>>

RECURSIVE LinksIn(_)
LinksIn(f) == IF f = <<>> THEN 0 ELSE Head(f).links + LinksIn(Tail(f))

\* lines 118-138: fetch the listing page, collect its links, break when none
FetchListing ==
    /\ pc = "list"
    /\ UNCHANGED <<day, store, runs, init_store, last, gate_vars, li,
                   processed_emails, businesses, file, idx, first_seen, dups, reserved,
                   sent>>
    /\ \/ /\ Exit("err_network")
          /\ UNCHANGED <<business_links, fetched, page_number>>
       \/ \E page \in ListingPages :
            /\ Len(page) <= MaxLinks - LinksIn(fetched)
            /\ fetched' = Append(fetched, [page |-> page_number, links |-> Len(page)])
            /\ UNCHANGED exit
            /\ IF IsEmpty(page)
               THEN /\ pc' = "persist"
                    /\ UNCHANGED <<business_links, page_number>>
               ELSE IF Len(page) = 0
               THEN \* a for loop over no link: straight to line 189
                    /\ page_number' = page_number + 1
                    /\ UNCHANGED <<business_links, pc>>
               ELSE /\ pc' = "detail"
                    /\ business_links' = page
                    /\ UNCHANGED page_number

\* lines 170-182: the dedup test
Admits_Always(seen, email) == TRUE
Admits(seen, email) == email \notin seen

\* end of the for body, and line 189 after the last link
NextLink_SkipPage ==
    IF li < Len(business_links)
    THEN /\ li' = li + 1
         /\ UNCHANGED <<pc, page_number, business_links>>
    ELSE /\ li' = 1
         /\ business_links' = <<>>
         /\ page_number' = page_number + 2
         /\ pc' = "list"
NextLink ==
    IF li < Len(business_links)
    THEN /\ li' = li + 1
         /\ UNCHANGED <<pc, page_number, business_links>>
    ELSE /\ li' = 1
         /\ business_links' = <<>>
         /\ page_number' = page_number + 1
         /\ pc' = "list"

\* lines 140-186: one link of the listing page
ProcessLink ==
    /\ pc = "detail"
    /\ UNCHANGED <<day, store, runs, init_store, last, gate_vars, file, idx, fetched,
                   reserved, sent>>
    /\ LET link == business_links[li]
           url == DetailUrl(link.href)
       IN IF ~link.has_href
          THEN /\ NextLink
               /\ UNCHANGED <<exit, processed_emails, businesses, first_seen, dups>>
          ELSE \/ /\ Exit("err_network")
                  /\ UNCHANGED <<page_number, business_links, li, processed_emails,
                                 businesses, first_seen, dups>>
               \/ \E d \in DetailPages :
                    /\ NextLink
                    /\ UNCHANGED exit
                    /\ IF d.elem
                       THEN LET email == ExtractEmail(d)
                            IN /\ IF Admits(processed_emails, email)
                                  THEN /\ processed_emails' = processed_emails \cup {email}
                                       /\ businesses' = Append(businesses,
                                                               [url |-> url, email |-> email])
                                       /\ UNCHANGED dups
                                  ELSE /\ dups' = dups \cup {[url |-> url, email |-> email]}
                                       /\ UNCHANGED <<processed_emails, businesses>>
                               /\ first_seen' =
                                    IF \E r \in first_seen : r.email = email
                                    THEN first_seen
                                    ELSE first_seen \cup {[url |-> url, email |-> email]}
                       ELSE UNCHANGED <<processed_emails, businesses, first_seen, dups>>

\* lines 192-194; the crawl is over and its history is dropped
Persist_NoWrite ==
    /\ pc = "persist"
    /\ \E ok \in BOOLEAN :
        IF ok
        THEN /\ pc' = "config"
             /\ UNCHANGED <<exit, file>>
        ELSE /\ Exit("err_io")
             /\ UNCHANGED file
    /\ fetched' = <<>>
    /\ first_seen' = {}
    /\ dups' = {}
    /\ UNCHANGED <<day, store, runs, init_store, last, gate_vars, page_number, business_links,
                   li, processed_emails, businesses, idx, reserved, sent>>
Persist ==
    /\ pc = "persist"
    /\ \E ok \in BOOLEAN :
        IF ok
        THEN /\ file' = <<businesses>>
             /\ pc' = "config"
             /\ UNCHANGED exit
        ELSE /\ Exit("err_io")
             /\ UNCHANGED file
    /\ fetched' = <<>>
    /\ first_seen' = {}
    /\ dups' = {}
    /\ UNCHANGED <<day, store, runs, init_store, last, gate_vars, page_number, business_links,
                   li, processed_emails, businesses, idx, reserved, sent>>

\* lines 196-209: .env, EMAIL_PASSWORD, the relay, the template
LoadConfig ==
    /\ pc = "config"
    /\ \E outcome \in {"ok", "panic_config", "err_config"} :
        IF outcome = "ok" THEN pc' = "confirm" /\ UNCHANGED exit ELSE Exit(outcome)
    /\ UNCHANGED <<day, store, runs, init_store, last, gate_vars, page_number, business_links,
                   li, processed_emails, businesses, file, idx, fetched, first_seen,
                   dups, reserved, sent>>

\* lines 216-222
Confirm ==
    /\ pc = "confirm"
    /\ \E answer \in {"yes", "no", "err_io"} :
        IF answer = "yes" THEN pc' = "dispatch" /\ UNCHANGED exit
        ELSE IF answer = "no" THEN Exit("ok_aborted")
        ELSE Exit("err_io")
    /\ UNCHANGED <<day, store, runs, init_store, last, gate_vars, page_number, business_links,
                   li, processed_emails, businesses, file, idx, fetched, first_seen,
                   dups, reserved, sent>>

\* line 225
IsValidRecipient_Always(e) == TRUE
IsValidRecipient(e) == ContainsAt(e)

\* lines 224-230: the next business, up to the call of the gate
Dispatch ==
    /\ pc = "dispatch"
    /\ UNCHANGED <<day, store, runs, init_store, page_number, business_links, li,
                   processed_emails, businesses, file, fetched, first_seen, dups, sent>>
    /\ IF idx > Len(businesses)
       THEN /\ Exit("ok_done")
            /\ UNCHANGED <<last, gate_vars, idx, reserved>>
       ELSE IF ~IsValidRecipient(businesses[idx].email)
       THEN /\ idx' = idx + 1
            /\ UNCHANGED <<last, gate_vars, pc, exit, reserved>>
       ELSE /\ BeginCall(MainProc)
            /\ pc' = "gate"
            /\ reserved' = Append(reserved, businesses[idx].email)
            /\ UNCHANGED <<trues, idx, exit>>

\* lines 240-245: both arms of the match fall through to the next business
AfterSend_RetryFailed(ok) == IF ok THEN idx + 1 ELSE idx
AfterSend(ok) == idx + 1

\* the condition of line 230, on a call that returned Ok
Granted_Always(r) == TRUE
Granted(r) == r = "true"

\* lines 230-249: what main does with the result of the gate
AfterGate ==
    /\ pc = "gate"
    /\ last.caller = MainProc
    /\ last' = NoCall
    /\ UNCHANGED <<day, store, runs, init_store, gate_vars, page_number,
                   business_links, li, processed_emails, businesses, file, fetched,
                   first_seen, dups, reserved>>
    /\ IF last.ret = "err"
       THEN /\ Exit("err_redis")
            /\ UNCHANGED <<idx, sent>>
       ELSE IF Granted(last.ret)
       THEN IF ParsesAsMailbox(businesses[idx].email)
            THEN \E ok \in BOOLEAN :
                    /\ sent' = Append(sent, [email |-> businesses[idx].email, ok |-> ok])
                    /\ idx' = AfterSend(ok)
                    /\ pc' = "dispatch"
                    /\ UNCHANGED exit
            ELSE /\ Exit("panic_address")
                 /\ UNCHANGED <<idx, sent>>
       ELSE /\ Exit("ok_limit")
            /\ UNCHANGED <<idx, sent>>

MainInit ==
    /\ pc = "connect"
    /\ exit = "none"
    /\ page_number = 1
    /\ business_links = <<>>
    /\ li = 1
    /\ processed_emails = {}
    /\ businesses = <<>>
    /\ file = <<>>
    /\ idx = 1
    /\ fetched = <<>>
    /\ first_seen = {}
    /\ dups = {}
    /\ reserved = <<>>
    /\ sent = <<>>

Init ==
    /\ GateInit
    /\ MainInit
    /\ runs = {MainProc}

Next ==
    \/ Connect
    \/ FetchListing
    \/ ProcessLink
    \/ Persist
    \/ LoadConfig
    \/ Confirm
    \/ Dispatch
    \/ AfterGate
    \/ GateGet(MainProc)
    \/ GateIncr(MainProc)
    \/ GateSet(MainProc)
    \/ GateExpire(MainProc)

\* One run of main, from start to exit, within one calendar day.
Spec == Init /\ [][Next]_vars

\* ================================================================ claims
NoFailure(log) == \A i \in 1 .. Len(log) : log[i]
AllFailed(log) == Len(log) > 0 /\ \A i \in 1 .. Len(log) : ~log[i]
\* the first n round-trips failed, every later one succeeded
FailsThenSucceeds(log, n) == Len(log) > n /\ \A i \in 1 .. Len(log) : log[i] <=> i > n

\* today's key was absent or 0 at start
InitZero == ~init_store[1].exists \/ init_store[1].val = 0
SingleCaller == runs = {MainProc}
Min(a, b) == IF a <= b THEN a ELSE b
ValidCount == Cardinality({i \in 1 .. Len(businesses) : ContainsAt(businesses[i].email)})
CompletedOk == exit \in {"ok_done", "ok_limit"}
\* trues[key] when the call in `last` began, for a single caller
BeforeLast == trues[last.key] - (IF last.ret = "true" THEN 1 ELSE 0)
\* the call in `last` did to the store what the value it found asks for
CorrectResult ==
    IF ~last.pre.exists \/ last.pre.val < MaxPerDay
    THEN /\ last.ret = "true"
         /\ store[last.key].exists
         /\ store[last.key].val = last.pre.val + 1
    ELSE /\ last.ret = "false"
         /\ store[last.key] = last.pre

\* C1: a single caller, today's key absent or 0 at start, no other writer:
\* the calls of the day that returned true never outnumber max_per_day, and
\* a call begun once max_per_day calls of the day returned true, and whose
\* store round-trips all succeed, returns false.
C1_QuotaMonotonicity ==
    (SingleCaller /\ InitZero) =>
        /\ trues[day] <= MaxPerDay
        /\ (/\ last.caller = MainProc
            /\ last.key = day
            /\ BeforeLast = MaxPerDay
            /\ NoFailure(last.oplog)) => last.ret = "false"

C1_Witness ==
    /\ SingleCaller
    /\ InitZero
    /\ last.caller = MainProc
    /\ last.key = day
    /\ trues[day] = MaxPerDay
    /\ NoFailure(last.oplog)
    /\ last.ret = "false"

\* C2: with the store operations of several callers interleaved, the calls of
\* the day that returned true never outnumber max_per_day.
C2_ConcurrentQuota == \A k \in Days : k = day => trues[k] <= MaxPerDay

\* C3: the stored counter of a day never exceeds max_per_day through the
\* gate's own SET and INCR.
C3_CounterWithinMax == \A k \in Days : store[k].val <= MaxPerDay

\* C4 as claimed: four failures and then success give the correct result after
\* exactly 5 reads; failure on every round-trip gives a store error after
\* exactly 5 reads, and a 6th read is never made.
C4_RetryBoundFive ==
    /\ \A p \in Procs : attempts[p] <= 5
    /\ last.caller # 0 =>
        /\ FailsThenSucceeds(last.oplog, 4) => (last.ret # "err" /\ last.attempts = 5)
        /\ AllFailed(last.oplog) => (last.ret = "err" /\ last.attempts = 5)

\* C4 as amended: four failures and then success give the correct result after
\* exactly 5 reads; failure on every round-trip gives a store error after
\* exactly 6 reads (the first and max_retries = 5 retries), and a 7th read is
\* never made.
C4_RetryBoundSix ==
    /\ \A p \in Procs : attempts[p] <= max_retries + 1
    /\ last.caller # 0 =>
        /\ FailsThenSucceeds(last.oplog, 4) =>
            /\ last.ret # "err"
            /\ last.attempts = 5
            /\ (SingleCaller /\ last.key = day) => CorrectResult
        /\ AllFailed(last.oplog) => (last.ret = "err" /\ last.attempts = max_retries + 1)

C4_Witness ==
    /\ last.caller # 0
    /\ AllFailed(last.oplog)
    /\ last.ret = "err"
    /\ last.attempts = 6

\* C5: a call never fails on the first failure of a store round-trip, whichever
\* operation it is.
C5_EveryOperationRetried == last.ret = "err" => Failures(last.oplog) > 1

C7_InvalidRecipientSkipped ==
    /\ [](\A i \in 1 .. Len(sent) : ContainsAt(sent[i].email))
    /\ [](\A i \in 1 .. Len(reserved) : ContainsAt(reserved[i]))
    /\ [][(/\ pc = "dispatch"
           /\ idx <= Len(businesses)
           /\ ~ContainsAt(businesses[idx].email)) =>
            /\ pc' = "dispatch"
            /\ idx' = idx + 1
            /\ exit' = "none"
            /\ UNCHANGED <<store, calls, gpc, sent, reserved>>]_vars

C7_Witness ==
    \E i, j \in 1 .. Len(businesses) :
        /\ i < j
        /\ ~ContainsAt(businesses[i].email)
        /\ \E t \in 1 .. Len(sent) : sent[t].email = businesses[j].email

\* C8: a failed send moves on to the next record, no recipient is sent to
\* twice, and between records and after a completed pass the counter is its
\* initial value plus the number of send attempts, failed ones included.
C8_SendFailureIsolated ==
    /\ []((pc = "dispatch" \/ CompletedOk) =>
            store[1].val = init_store[1].val + Len(sent))
    /\ [](\A i, j \in 1 .. Len(sent) : i # j => sent[i].email # sent[j].email)
    /\ [][(Len(sent') > Len(sent) /\ ~sent'[Len(sent')].ok) =>
            /\ pc' = "dispatch"
            /\ idx' = idx + 1
            /\ exit' = "none"
            /\ store' = store]_vars

C8_Witness ==
    /\ CompletedOk
    /\ \E i \in 1 .. Len(sent) - 1 : ~sent[i].ok
    /\ store[1].val = init_store[1].val + Len(sent)

InCrawl == pc \in {"list", "detail", "persist"}

\* C9: no two records of businesses share an email; during the crawl and at
\* its end every email presented has exactly one record, with the URL of the
\* page it was first seen on; a rejected presentation is of an email already
\* admitted.
C9_Deduplication ==
    /\ \A i, j \in 1 .. Len(businesses) :
        i # j => businesses[i].email # businesses[j].email
    /\ InCrawl => {businesses[i] : i \in 1 .. Len(businesses)} = first_seen
    /\ processed_emails = {businesses[i].email : i \in 1 .. Len(businesses)}
    /\ \A d \in dups : \E i \in 1 .. Len(businesses) : businesses[i].email = d.email

C9_Witness ==
    \E d \in dups : \E i \in 1 .. Len(businesses) :
        /\ businesses[i].email = d.email
        /\ businesses[i].url # d.url

\* C10: the listing page that holds no link is the last one fetched; the
\* crawl loop is left, page_number stays on that page, and the next step of
\* the run persists the result instead of ending with a network error.
C10_CrawlTerminates ==
    /\ [](\A i \in 1 .. Len(fetched) :
            fetched[i].links = 0 =>
                /\ i = Len(fetched)
                /\ pc = "persist"
                /\ exit = "none"
                /\ page_number = fetched[i].page)
    /\ [](pc = "persist" => fetched # <<>> /\ fetched[Len(fetched)].links = 0)
    /\ [][pc = "persist" =>
            /\ pc' \in {"config", "exit"}
            /\ exit' \in {"none", "err_io"}
            /\ (pc' = "config" => file' = <<businesses>>)
            /\ UNCHANGED <<businesses, page_number>>]_vars
    /\ [][pc \notin {"connect", "list", "detail"} => pc' \notin {"list", "detail"}]_vars

C10_Witness ==
    /\ Len(fetched) >= 2
    /\ fetched[Len(fetched)].links = 0
    /\ fetched[1].links > 0
    /\ pc = "persist"

\* the dispatch loop was entered and left, and not by a store error
DispatchEnded == exit \in {"ok_done", "ok_limit", "panic_address"}
AllSendsOk == \A i \in 1 .. Len(sent) : sent[i].ok

\* C11: a run with today's key absent at start, max_per_day at least the number
\* of records, and every send succeeding, has attempted as many sends as
\* businesses holds emails with '@' when its dispatch loop is left, and the
\* counter then holds that number.
C11_EndToEndAccounting ==
    (/\ DispatchEnded
     /\ ~init_store[1].exists
     /\ Len(businesses) <= MaxPerDay
     /\ AllSendsOk) =>
        /\ Len(sent) = ValidCount
        /\ store[1].val = ValidCount

\* caller p takes a step of its call
CallStep(p) == gpc[p] # "idle" /\ (gpc'[p] # gpc[p] \/ oplog'[p] # oplog[p])

\* C12: a call begun on a day takes that day's key; no step of the call
\* changes the counter or the expiry of any other day; and the result of a
\* call that began and ended on the same day, its round-trips all succeeding,
\* is decided by the value it found under its own key alone, whatever the
\* counters of the other days hold.
C12_DayIsolation ==
    /\ [][\A p \in Procs :
            /\ (gpc[p] = "idle" /\ gpc'[p] # "idle") => (key'[p] = day /\ store' = store)
            /\ CallStep(p) => \A k \in Days \ {key[p]} : store'[k] = store[k]]_vars
    /\ []((last.caller # 0 /\ last.key = day /\ NoFailure(last.oplog)) =>
            (last.ret = "true" <=> (~last.pre.exists \/ last.pre.val < MaxPerDay)))

C12_Witness ==
    /\ last.caller # 0
    /\ last.key = day
    /\ day > 1
    /\ store[day - 1].exists
    /\ store[day - 1].val = MaxPerDay
    /\ store[day - 1] = init_store[day - 1]
    /\ last.ret = "true"

\* C13: a run that ends because .env or EMAIL_PASSWORD is missing has fetched
\* no page: it has not moved past page 1, holds no record and has written no
\* result file.
C13_ConfigErrorAtStartup ==
    exit = "panic_config" =>
        /\ page_number = 1
        /\ businesses = <<>>
        /\ file = <<>>

\* C14: the step on which a listing or detail fetch fails ends the run with a
\* network error and yields no page, record or counter change; a run ended
\* that way has written no result file, called no gate and sent nothing, and
\* takes no further step (no retry, no further page).
C14_NetworkErrorFatal ==
    /\ [](exit = "err_network" =>
            /\ pc = "exit"
            /\ file = <<>>
            /\ calls = 0
            /\ reserved = <<>>
            /\ sent = <<>>)
    /\ [][(exit = "none" /\ exit' = "err_network") =>
            /\ pc \in {"list", "detail"}
            /\ UNCHANGED <<fetched, businesses, processed_emails, page_number, li,
                           store>>]_vars
    /\ [][exit = "err_network" => UNCHANGED vars]_vars

C14_Witness ==
    /\ exit = "err_network"
    /\ Len(fetched) >= 1
    /\ Len(businesses) >= 1
    /\ file = <<>>

\* C15: whenever the gate has been called or a send attempted, and all through
\* the dispatch loop, the crawl loop has been left and the result file holds
\* the complete businesses; the file is written by one step only, once, and
\* businesses gets no record after that.
C15_CrawlPrecedesDispatch ==
    /\ []((calls > 0 \/ reserved # <<>> \/ sent # <<>> \/ pc \in {"dispatch", "gate"}) =>
            /\ file = <<businesses>>
            /\ pc \notin {"connect", "list", "detail", "persist"})
    /\ [][file' # file => (pc = "persist" /\ file = <<>> /\ file' = <<businesses>>)]_vars
    /\ [][pc' = "persist" => pc \in {"list", "persist"}]_vars
    /\ [][pc = "persist" => pc' # "persist"]_vars
    /\ [][file # <<>> => businesses' = businesses]_vars

C15_Witness ==
    /\ Len(sent) >= 1
    /\ Len(businesses) >= 2
    /\ file = <<businesses>>
    /\ pc = "gate"

\* the place of the record of email e in businesses
Pos(e) == CHOOSE i \in 1 .. Len(businesses) : businesses[i].email = e

\* C16: the i-th listing page fetched is page i; the links of a page are
\* taken one after the other from the first to the last; a record is only
\* ever appended to businesses, with the URL of the link being processed; and
\* the dispatch loop goes through businesses from the first record on, one at
\* a time, so that the gate is asked and the sends are attempted in the order
\* of businesses.
C16_Ordering ==
    /\ [](\A i \in 1 .. Len(fetched) : fetched[i].page = i)
    /\ [](pc = "list" => page_number = Len(fetched) + 1)
    /\ [](pc = "detail" => (page_number = Len(fetched) /\ li \in 1 .. Len(business_links)))
    /\ [][(pc = "list" /\ pc' = "detail") => li' = 1]_vars
    /\ [][(pc = "detail" /\ exit' = "none") =>
            \/ li' = li + 1 /\ business_links' = business_links /\ pc' = "detail"
            \/ li = Len(business_links) /\ pc' = "list" /\ page_number' = page_number + 1]_vars
    /\ [][businesses' # businesses =>
            /\ pc = "detail"
            /\ Len(businesses') = Len(businesses) + 1
            /\ SubSeq(businesses', 1, Len(businesses)) = businesses
            /\ businesses'[Len(businesses')].url = DetailUrl(business_links[li].href)]_vars
    /\ [](pc = "gate" => reserved[Len(reserved)] = businesses[idx].email)
    /\ [][idx' # idx => (idx' = idx + 1 /\ idx <= Len(businesses))]_vars
    /\ [][Len(sent') > Len(sent) =>
            sent' = Append(sent, [email |-> businesses[idx].email,
                                  ok |-> sent'[Len(sent')].ok])]_vars
    /\ [](\A i, j \in 1 .. Len(reserved) : i < j => Pos(reserved[i]) < Pos(reserved[j]))
    /\ [](\A i, j \in 1 .. Len(sent) : i < j => Pos(sent[i].email) < Pos(sent[j].email))

C16_Witness ==
    /\ page_number >= 3
    /\ Len(businesses) >= 2
    /\ Len(sent) >= 2
    /\ Pos(sent[1].email) < Pos(sent[2].email)

Armed(v) == [exists |-> TRUE, val |-> v, ttl |-> TRUE]

\* C17: a call of one caller that began and ended today without a store error
\* leaves under today's key: value 1 with the expiry armed if the key was
\* absent; value 1 with the expiry armed if it held 0; the value plus one and
\* the expiry as it was if it held v with 0 < v < max_per_day, in each case
\* returning true; and the key as it was, returning false, if it held
\* max_per_day or more.
C17_ExpiryProtocol ==
    (last.caller # 0 /\ last.key = day /\ last.ret # "err") =>
        IF ~last.pre.exists
        THEN last.ret = "true" /\ store[last.key] = Armed(1)
        ELSE IF last.pre.val = 0
        THEN last.ret = "true" /\ store[last.key] = Armed(1)
        ELSE IF last.pre.val < MaxPerDay
        THEN /\ last.ret = "true"
             /\ store[last.key] = [last.pre EXCEPT !.val = @ + 1]
        ELSE last.ret = "false" /\ store[last.key] = last.pre

C17_Witness ==
    /\ last.caller # 0
    /\ last.key = day
    /\ last.ret = "true"
    /\ last.pre.exists
    /\ last.pre.val = 0
    /\ ~last.pre.ttl
    /\ store[last.key] = Armed(1)

\* C18: an extraction that yields no address leaves no trace: businesses holds
\* no record with an empty email and the dedup set does not hold the empty
\* email.
C18_FailedExtractionDropped ==
    /\ \A i \in 1 .. Len(businesses) : businesses[i].email # <<>>
    /\ <<>> \notin processed_emails

\* C19: a call of one caller that began and ended today with a store error
\* leaves today's counter at the value it found, and leaves no key it created
\* without an expiry.
C19_ErrorLeavesCounter ==
    (last.caller # 0 /\ last.key = day /\ last.ret = "err") =>
        /\ store[last.key].val = last.pre.val
        /\ (store[last.key].exists /\ ~last.pre.exists) => store[last.key].ttl

\* C20: outside the handling of a gate result, the send attempts of a run are
\* as many as the reservations the gate granted it, so a run never ends
\* between a granted reservation and its send.
C20_GrantThenSend == pc # "gate" => Len(sent) = trues[day]
====
